---------------------------- MODULE Spec2Model ----------------------------
(***************************************************************************)
(* Model of script.js: a cascading six-column dropdown filter over the     *)
(* rows of a spreadsheet, with one answer column shown when the current    *)
(* selections identify exactly one row.                                    *)
(*                                                                         *)
(* A JavaScript string is modelled as the sequence of its UTF-16 code      *)
(* units, so that trimming, equality and the default sort order are        *)
(* computed as the engine computes them.                                   *)
(***************************************************************************)
EXTENDS Integers, Sequences, FiniteSets, TLC

(***************************************************************************)
(* Bounds                                                                  *)
(***************************************************************************)
\* largest number of rows in a loaded sheet
MaxRows == 2

(***************************************************************************)
(* Strings                                                                 *)
(***************************************************************************)
EmptyStr == << >>

\* "No result yet", the text initializeDropdowns writes to #result
NoResultYet == <<78, 111, 32, 114, 101, 115, 117, 108, 116, 32, 121, 101, 116>>

\* "Error: Unable to load DynamicNBA.xlsx."
LoadErrorText ==
  <<69, 114, 114, 111, 114, 58, 32, 85, 110, 97, 98, 108, 101, 32, 116, 111,
    32, 108, 111, 97, 100, 32, 68, 121, 110, 97, 109, 105, 99, 78, 66, 65,
    46, 120, 108, 115, 120, 46>>

\* the code units String.prototype.trim removes (WhiteSpace and LineTerminator)
WhiteSpace ==
  {9, 10, 11, 12, 13, 32, 160, 5760, 8232, 8233, 8239, 8287, 12288, 65279}
    \cup (8192..8202)

RECURSIVE TrimStart(_)
TrimStart(s) ==
  IF s = EmptyStr THEN EmptyStr
  ELSE IF Head(s) \in WhiteSpace THEN TrimStart(Tail(s))
  ELSE s

RECURSIVE TrimEnd(_)
TrimEnd(s) ==
  IF s = EmptyStr THEN EmptyStr
  ELSE IF s[Len(s)] \in WhiteSpace THEN TrimEnd(SubSeq(s, 1, Len(s) - 1))
  ELSE s

\* String.prototype.trim
Trim(s) == TrimEnd(TrimStart(s))

\* ToBoolean of a string: only the empty string is falsy
Truthy(s) == s # EmptyStr

\* the expression  x || ""
OrEmpty(s) == IF Truthy(s) THEN s ELSE EmptyStr

\* the comparison the default Array.prototype.sort applies to two strings:
\* lexicographic order of the UTF-16 code units
RECURSIVE CodeUnitLess(_, _)
CodeUnitLess(a, b) ==
  IF b = EmptyStr THEN FALSE
  ELSE IF a = EmptyStr THEN TRUE
  ELSE IF Head(a) < Head(b) THEN TRUE
  ELSE IF Head(a) > Head(b) THEN FALSE
  ELSE CodeUnitLess(Tail(a), Tail(b))

RECURSIVE InsertSorted(_, _)
InsertSorted(v, sorted) ==
  IF sorted = << >> THEN <<v>>
  ELSE IF CodeUnitLess(v, Head(sorted)) THEN <<v>> \o sorted
  ELSE <<Head(sorted)>> \o InsertSorted(v, Tail(sorted))

\* Array.prototype.sort() with no comparator, on an array of strings
RECURSIVE Sort(_)
Sort(arr) ==
  IF arr = << >> THEN << >>
  ELSE InsertSorted(Head(arr), Sort(Tail(arr)))

(***************************************************************************)
(* Configuration                                                           *)
(***************************************************************************)
\* positions of the seven column headers; 0..5 classify, 6 is the answer
columnHeaders == 0..6

\* positions of the six <select> elements
dropdownIds == 0..5

NumDropdowns == 6

AnswerColumn == 6

Row(c0, c1, c2, c3, c4, c5, ans) ==
  [c \in columnHeaders |-> <<c0, c1, c2, c3, c4, c5, ans>>[c + 1]]

Vector(v0, v1, v2, v3, v4, v5) ==
  [i \in dropdownIds |-> <<v0, v1, v2, v3, v4, v5>>[i + 1]]

AllBlank == [i \in dropdownIds |-> EmptyStr]

NoOptions == [i \in dropdownIds |-> << >>]

(***************************************************************************)
(* 5. getUniqueValues                                                      *)
(***************************************************************************)
\* Set.prototype.add on a Set kept in insertion order
SetAdd(valSet, v) ==
  IF \E p \in 1..Len(valSet) : valSet[p] = v THEN valSet ELSE Append(valSet, v)

\* CollectValues without the cellVal !== "" test
RECURSIVE CollectValuesKeepEmpty(_, _, _)
CollectValuesKeepEmpty(dataArray, colName, valSet) ==
  IF dataArray = << >> THEN valSet
  ELSE LET row == Head(dataArray)
           cellVal == IF Truthy(row[colName]) THEN Trim(row[colName])
                      ELSE EmptyStr
       IN CollectValuesKeepEmpty(Tail(dataArray), colName,
                                 SetAdd(valSet, cellVal))

RECURSIVE CollectValues(_, _, _)
CollectValues(dataArray, colName, valSet) ==
  IF dataArray = << >> THEN valSet
  ELSE LET row == Head(dataArray)
           cellVal == IF Truthy(row[colName]) THEN Trim(row[colName])
                      ELSE EmptyStr
       IN CollectValues(Tail(dataArray), colName,
                        IF cellVal # EmptyStr THEN SetAdd(valSet, cellVal)
                        ELSE valSet)

\* getUniqueValues without the final sort()
getUniqueValuesUnsorted(dataArray, colName) ==
  CollectValues(dataArray, colName, << >>)

getUniqueValues(dataArray, colName) ==
  Sort(CollectValues(dataArray, colName, << >>))

(***************************************************************************)
(* 7. strictFilter                                                         *)
(***************************************************************************)
RECURSIVE StrictRow(_, _, _)
StrictRow(row, filters, i) ==
  IF i >= NumDropdowns THEN TRUE
  ELSE LET userVal == filters[i]
           cellVal == Trim(OrEmpty(row[i]))
       IN IF userVal = EmptyStr
          THEN IF cellVal # EmptyStr THEN FALSE
               ELSE StrictRow(row, filters, i + 1)
          ELSE IF cellVal # userVal THEN FALSE
               ELSE StrictRow(row, filters, i + 1)

\* strictFilter without the branch for a blank userVal
strictFilterBlankUnconstrained(dataArray, filters) ==
  SelectSeq(dataArray, LAMBDA row :
    \A i \in dropdownIds :
      filters[i] # EmptyStr => Trim(OrEmpty(row[i])) = filters[i])

strictFilter(dataArray, filters) ==
  SelectSeq(dataArray, LAMBDA row : StrictRow(row, filters, 0))

(***************************************************************************)
(* 8. relaxedFilter                                                        *)
(***************************************************************************)
\* RelaxedRow comparing the cell without trim()
RECURSIVE RelaxedRowUntrimmed(_, _, _)
RelaxedRowUntrimmed(row, filters, i) ==
  IF i >= NumDropdowns THEN TRUE
  ELSE LET userVal == filters[i]
       IN IF Truthy(userVal)
          THEN IF OrEmpty(row[i]) # userVal THEN FALSE
               ELSE RelaxedRowUntrimmed(row, filters, i + 1)
          ELSE RelaxedRowUntrimmed(row, filters, i + 1)

RECURSIVE RelaxedRow(_, _, _)
RelaxedRow(row, filters, i) ==
  IF i >= NumDropdowns THEN TRUE
  ELSE LET userVal == filters[i]
       IN IF Truthy(userVal)
          THEN IF Trim(OrEmpty(row[i])) # userVal THEN FALSE
               ELSE RelaxedRow(row, filters, i + 1)
          ELSE RelaxedRow(row, filters, i + 1)

\* relaxedFilter whose callback never returns false
relaxedFilterAll(dataArray, filters) ==
  SelectSeq(dataArray, LAMBDA row : TRUE)

\* relaxedFilter with strictFilter's branch for a blank userVal
relaxedFilterBlankConstrained(dataArray, filters) ==
  SelectSeq(dataArray, LAMBDA row :
    \A i \in dropdownIds :
      IF filters[i] = EmptyStr THEN Trim(OrEmpty(row[i])) = EmptyStr
      ELSE Trim(OrEmpty(row[i])) = filters[i])

relaxedFilter(dataArray, filters) ==
  SelectSeq(dataArray, LAMBDA row : RelaxedRow(row, filters, 0))

(***************************************************************************)
(* State                                                                   *)
(***************************************************************************)
VARIABLES
  loadState,            \* progress of the one XMLHttpRequest
  resetBtn,             \* whether the page has an element with id resetBtn
  listeners,            \* whether the change listeners are attached
  excelData,            \* the rows parsed from the first sheet
  value,                \* value[i]: the .value of <select> i
  options,              \* options[i]: the options of <select> i after "--Select--"
  result,               \* textContent of #result
  lastCall,             \* the handler that ran last
  changedIndex,         \* argument of the last handleSelection
  filters,              \* the selections the last handleSelection gathered
  strictlyMatchedRows,  \* output of the last strictFilter
  relaxedData,          \* output of the last relaxedFilter
  colName,              \* column of the last direct getUniqueValues call
  uniqueVals,           \* its output
  chosenVals            \* the values the loop of the last handleSelection read

vars == <<loadState, resetBtn, listeners, excelData, value, options, result,
          lastCall, changedIndex, filters, strictlyMatchedRows, relaxedData,
          colName, uniqueVals, chosenVals>>

(***************************************************************************)
(* Sheets the page may be served                                           *)
(***************************************************************************)
sA == <<65>>
sB == <<66>>
sC == <<67>>
sD == <<68>>
sE == <<69>>
sG == <<71>>
sH == <<72>>
\* " A ": the value A with surrounding spaces
sPaddedA == <<32, 65, 32>>
\* " ": a cell holding only a space
sSpace == <<32>>
\* U+FF21 FULLWIDTH LATIN CAPITAL LETTER A, one code unit
sFullwidthA == <<65313>>
\* U+1F600 GRINNING FACE, the surrogate pair D83D DE00
sGrinning == <<55357, 56832>>
sFoo == <<102, 111, 111>>
sBar == <<98, 97, 114>>
sBaz == <<98, 97, 122>>
sQux == <<113, 117, 120>>
\* " a\nb ": an answer with an embedded line break and surrounding spaces
sTwoLines == <<32, 97, 10, 98, 32>>

RowPool ==
  { Row(sA, EmptyStr, EmptyStr, EmptyStr, EmptyStr, EmptyStr, sFoo),
    Row(sA, sB, EmptyStr, EmptyStr, EmptyStr, EmptyStr, sBar),
    Row(sC, sD, EmptyStr, EmptyStr, EmptyStr, EmptyStr, sBaz),
    Row(sC, sB, EmptyStr, EmptyStr, EmptyStr, EmptyStr, sQux),
    Row(sPaddedA, sSpace, sE, sG, sH, sFullwidthA, sTwoLines),
    Row(sA, sB, sE, EmptyStr, EmptyStr, sGrinning, EmptyStr) }

\* every sheet of at most MaxRows rows
Sheets == UNION { [1..n -> RowPool] : n \in 0..MaxRows }

\* selection vectors offered to the filters when they are applied directly
FilterVectors ==
  { Vector(v0, v1, v2, v3, v4, v5) :
      v0 \in {EmptyStr, sA, sC}, v1 \in {EmptyStr, sB, sD},
      v2 \in {EmptyStr, sE}, v3 \in {EmptyStr, sG},
      v4 \in {EmptyStr, sH}, v5 \in {EmptyStr, sFullwidthA, sGrinning} }

(***************************************************************************)
(* The page: the six <select> elements and #result                         *)
(***************************************************************************)
Dom(v, o, r) == [value |-> v, options |-> o, result |-> r]

\* populateDropdown without the "--Select--" option: the first value appended
\* becomes the selected one
populateDropdownNoPlaceholder(dom, dropdownId, values) ==
  [dom EXCEPT !.options[dropdownId] = values,
              !.value[dropdownId] =
                 IF values = << >> THEN EmptyStr ELSE values[1]]

\* 4. populateDropdown: innerHTML is replaced by the "--Select--" option,
\* which becomes the selected one, and one option is appended per value
populateDropdown(dom, dropdownId, values) ==
  [dom EXCEPT !.options[dropdownId] = values,
              !.value[dropdownId] = EmptyStr]

\* clearSubsequentDropdowns starting one <select> too early
clearSubsequentDropdownsOneEarly(dom, startIndex) ==
  [dom EXCEPT
     !.options = [i \in dropdownIds |->
                    IF i >= startIndex - 1 THEN << >> ELSE dom.options[i]],
     !.value = [i \in dropdownIds |->
                  IF i >= startIndex - 1 THEN EmptyStr ELSE dom.value[i]]]

\* 9. clearSubsequentDropdowns
clearSubsequentDropdowns(dom, startIndex) ==
  [dom EXCEPT
     !.options = [i \in dropdownIds |->
                    IF i >= startIndex THEN << >> ELSE dom.options[i]],
     !.value = [i \in dropdownIds |->
                  IF i >= startIndex THEN EmptyStr ELSE dom.value[i]]]

\* initializeDropdowns clearing only the first <select> in step 1
initializeDropdownsFirstOnly(dom, data) ==
  LET cleared == [dom EXCEPT !.options[0] = << >>, !.value[0] = EmptyStr]
      filled == IF Len(data) > 0
                THEN populateDropdown(cleared, 0, getUniqueValues(data, 0))
                ELSE cleared
  IN [filled EXCEPT !.result = NoResultYet]

\* initializeDropdowns without step 3, the write to #result
initializeDropdownsKeepResult(dom, data) ==
  LET cleared == [dom EXCEPT !.options = NoOptions, !.value = AllBlank]
  IN IF Len(data) > 0
     THEN populateDropdown(cleared, 0, getUniqueValues(data, 0))
     ELSE cleared

\* 3. initializeDropdowns
initializeDropdowns(dom, data) ==
  LET cleared == [dom EXCEPT !.options = NoOptions, !.value = AllBlank]
      filled == IF Len(data) > 0
                THEN populateDropdown(cleared, 0, getUniqueValues(data, 0))
                ELSE cleared
  IN [filled EXCEPT !.result = NoResultYet]

\* the for loop of handleSelection, from column i on; reads collects the
\* chosenVal of every iteration
RECURSIVE PopulateLoopRun(_, _, _, _)
PopulateLoopRun(dom, relaxed, i, reads) ==
  IF i >= NumDropdowns THEN [dom |-> dom, chosenVals |-> reads]
  ELSE LET nextColName == i
           uniq == getUniqueValues(relaxed, nextColName)
           dom1 == populateDropdown(dom, i, uniq)
           chosenVal == dom1.value[i]
           refined == IF Truthy(chosenVal)
                      THEN SelectSeq(relaxed,
                             LAMBDA row : Trim(OrEmpty(row[nextColName])) = chosenVal)
                      ELSE relaxed
       IN PopulateLoopRun(dom1, refined, i + 1, Append(reads, chosenVal))

PopulateLoop(dom, relaxed, i) == PopulateLoopRun(dom, relaxed, i, << >>).dom

\* ResultText trimming the answer
ResultTextTrimmed(matched) ==
  IF Len(matched) = 1 THEN Trim(OrEmpty(matched[1][AnswerColumn])) ELSE EmptyStr

\* ResultText showing the first match whenever there is one
ResultTextFirstMatch(matched) ==
  IF Len(matched) >= 1 THEN OrEmpty(matched[1][AnswerColumn]) ELSE EmptyStr

\* the text handleSelection writes to #result
ResultText(matched) ==
  IF Len(matched) = 1 THEN OrEmpty(matched[1][AnswerColumn]) ELSE EmptyStr

\* handleSelection without the else branch that empties #result
handleSelectionRunKeepResult(dom, data, k) ==
  LET gathered == [i \in dropdownIds |-> OrEmpty(dom.value[i])]
      matched == strictFilter(data, gathered)
      shown == IF Len(matched) = 1
               THEN [dom EXCEPT !.result = ResultText(matched)]
               ELSE dom
      cleared == clearSubsequentDropdowns(shown, k + 1)
  IN PopulateLoopRun(cleared, relaxedFilter(data, gathered), k + 1, << >>)

\* 6. handleSelection, run on the page dom, with the values its loop read
handleSelectionRun(dom, data, k) ==
  LET gathered == [i \in dropdownIds |-> OrEmpty(dom.value[i])]
      shown == [dom EXCEPT !.result = ResultText(strictFilter(data, gathered))]
      cleared == clearSubsequentDropdowns(shown, k + 1)
  IN PopulateLoopRun(cleared, relaxedFilter(data, gathered), k + 1, << >>)

\* 6. handleSelection, run on the page dom
handleSelectionDom(dom, data, k) == handleSelectionRun(dom, data, k).dom

(***************************************************************************)
(* Events                                                                  *)
(***************************************************************************)
Init ==
  /\ loadState = "loading"
  /\ resetBtn \in BOOLEAN
  /\ listeners = FALSE
  /\ excelData = << >>
  /\ value = AllBlank
  /\ options = NoOptions
  /\ result \in {EmptyStr, NoResultYet}
  /\ lastCall = "none"
  /\ changedIndex = -1
  /\ filters = AllBlank
  /\ strictlyMatchedRows = << >>
  /\ relaxedData = << >>
  /\ colName = 0
  /\ uniqueVals = << >>
  /\ chosenVals = << >>

\* xhr.onload with a 2xx status and a workbook XLSX.read accepts
xhrOnloadOk ==
  /\ loadState = "loading"
  /\ \E sheet \in Sheets :
       LET dom == initializeDropdowns(Dom(value, options, result), sheet)
       IN /\ excelData' = sheet
          /\ value' = dom.value
          /\ options' = dom.options
          /\ result' = dom.result
  /\ listeners' = TRUE
  /\ loadState' = "loaded"
  /\ lastCall' = "xhr.onload"
  /\ UNCHANGED <<resetBtn, changedIndex, filters, strictlyMatchedRows,
                 relaxedData, colName, uniqueVals, chosenVals>>

\* xhr.onload throwing only after the rows are stored and the dropdowns set up
xhrOnloadThrowsAfterInit ==
  /\ loadState = "loading"
  /\ \E sheet \in Sheets :
       LET dom == initializeDropdowns(Dom(value, options, result), sheet)
       IN /\ excelData' = sheet
          /\ value' = dom.value
          /\ options' = dom.options
          /\ result' = dom.result
  /\ listeners' = TRUE
  /\ loadState' = "threw"
  /\ lastCall' = "xhr.onload"
  /\ UNCHANGED <<resetBtn, changedIndex, filters, strictlyMatchedRows,
                 relaxedData, colName, uniqueVals, chosenVals>>

\* xhr.onload with a 2xx status and a body XLSX.read throws on
xhrOnloadThrows ==
  /\ loadState = "loading"
  /\ loadState' = "threw"
  /\ lastCall' = "xhr.onload"
  /\ UNCHANGED <<resetBtn, listeners, excelData, value, options, result,
                 changedIndex, filters, strictlyMatchedRows, relaxedData,
                 colName, uniqueVals, chosenVals>>

\* xhr.onload with a status outside 200..299
xhrOnloadBadStatus ==
  /\ loadState = "loading"
  /\ loadState' = "badStatus"
  /\ result' = LoadErrorText
  /\ lastCall' = "xhr.onload"
  /\ UNCHANGED <<resetBtn, listeners, excelData, value, options,
                 changedIndex, filters, strictlyMatchedRows, relaxedData,
                 colName, uniqueVals, chosenVals>>

\* xhr.onerror
xhrOnerror ==
  /\ loadState = "loading"
  /\ loadState' = "networkError"
  /\ result' = LoadErrorText
  /\ lastCall' = "xhr.onerror"
  /\ UNCHANGED <<resetBtn, listeners, excelData, value, options,
                 changedIndex, filters, strictlyMatchedRows, relaxedData,
                 colName, uniqueVals, chosenVals>>

\* the values the user can pick in <select> i
Choices(i) == {EmptyStr} \cup { options[i][p] : p \in 1..Len(options[i]) }

\* the user picks another option of <select> k; its change listener runs
\* handleSelection(k)
handleSelection(k) ==
  /\ listeners
  /\ \E v \in Choices(k) \ {value[k]} :
       LET picked == [value EXCEPT ![k] = v]
           gathered == [i \in dropdownIds |-> OrEmpty(picked[i])]
           run == handleSelectionRun(Dom(picked, options, result), excelData, k)
           dom == run.dom
       IN /\ filters' = gathered
          /\ chosenVals' = run.chosenVals
          /\ strictlyMatchedRows' = strictFilter(excelData, gathered)
          /\ relaxedData' = relaxedFilter(excelData, gathered)
          /\ value' = dom.value
          /\ options' = dom.options
          /\ result' = dom.result
  /\ changedIndex' = k
  /\ lastCall' = "handleSelection"
  /\ UNCHANGED <<loadState, resetBtn, listeners, excelData, colName, uniqueVals>>

\* 10. a click on the reset button
resetClick ==
  /\ resetBtn
  /\ LET dom == initializeDropdowns(Dom(value, options, result), excelData)
     IN /\ value' = dom.value
        /\ options' = dom.options
        /\ result' = dom.result
  /\ lastCall' = "resetBtn.click"
  /\ UNCHANGED <<loadState, resetBtn, listeners, excelData, changedIndex,
                 filters, strictlyMatchedRows, relaxedData, colName, uniqueVals, chosenVals>>

Next ==
  \/ xhrOnloadOk
  \/ xhrOnloadThrows
  \/ xhrOnloadBadStatus
  \/ xhrOnerror
  \/ \E k \in dropdownIds : handleSelection(k)
  \/ resetClick

Spec == Init /\ [][Next]_vars

(***************************************************************************)
(* The three pure functions, applied directly to every sheet and every     *)
(* selection vector of the bounded input sets                              *)
(***************************************************************************)
InitFn ==
  /\ loadState = "loaded"
  /\ resetBtn = FALSE
  /\ listeners = FALSE
  /\ excelData \in Sheets
  /\ value = AllBlank
  /\ options = NoOptions
  /\ result = EmptyStr
  /\ lastCall = "none"
  /\ changedIndex = -1
  /\ filters \in FilterVectors
  /\ strictlyMatchedRows = << >>
  /\ relaxedData = << >>
  /\ colName = 0
  /\ uniqueVals = << >>
  /\ chosenVals = << >>

applyStrictFilter ==
  /\ lastCall = "none"
  /\ strictlyMatchedRows' = strictFilter(excelData, filters)
  /\ lastCall' = "strictFilter"
  /\ UNCHANGED <<loadState, resetBtn, listeners, excelData, value, options,
                 result, changedIndex, filters, relaxedData, colName,
                 uniqueVals, chosenVals>>

applyRelaxedFilter ==
  /\ lastCall \in {"none", "strictFilter"}
  /\ relaxedData' = relaxedFilter(excelData, filters)
  /\ lastCall' = IF lastCall = "none" THEN "relaxedFilter" ELSE "bothFilters"
  /\ UNCHANGED <<loadState, resetBtn, listeners, excelData, value, options,
                 result, changedIndex, filters, strictlyMatchedRows, colName,
                 uniqueVals, chosenVals>>

applyGetUniqueValues(c) ==
  /\ lastCall = "none"
  /\ colName' = c
  /\ uniqueVals' = getUniqueValues(excelData, c)
  /\ lastCall' = "getUniqueValues"
  /\ UNCHANGED <<loadState, resetBtn, listeners, excelData, value, options,
                 result, changedIndex, filters, strictlyMatchedRows,
                 relaxedData, chosenVals>>

NextFn ==
  \/ applyStrictFilter
  \/ applyRelaxedFilter
  \/ \E c \in columnHeaders : applyGetUniqueValues(c)

SpecFn == InitFn /\ [][NextFn]_vars

(***************************************************************************)
(* The operations as the specification words them                          *)
(***************************************************************************)
\* strictMatch: every column constrains the row
StrictMatch(rows, S) ==
  SelectSeq(rows, LAMBDA r :
    \A i \in dropdownIds :
      IF S[i] = EmptyStr THEN Trim(r[i]) = EmptyStr ELSE Trim(r[i]) = S[i])

\* relaxedMatch: only the columns with a selection constrain the row
RelaxedMatch(rows, S) ==
  SelectSeq(rows, LAMBDA r :
    \A i \in dropdownIds : S[i] # EmptyStr => Trim(r[i]) = S[i])

\* the distinct non-empty trimmed values of column c
TrimmedValues(rows, c) ==
  { Trim(rows[p][c]) : p \in 1..Len(rows) } \ {EmptyStr}

Elements(seq) == { seq[p] : p \in 1..Len(seq) }

Count(seq, r) == Cardinality({ p \in 1..Len(seq) : seq[p] = r })

\* the Unicode code points a sequence of UTF-16 code units encodes
RECURSIVE CodePoints(_)
CodePoints(s) ==
  IF s = << >> THEN << >>
  ELSE IF /\ Len(s) >= 2
          /\ s[1] \in 55296..56319
          /\ s[2] \in 56320..57343
       THEN <<65536 + (s[1] - 55296) * 1024 + (s[2] - 56320)>>
              \o CodePoints(SubSeq(s, 3, Len(s)))
       ELSE <<s[1]>> \o CodePoints(Tail(s))

RECURSIVE LexLess(_, _)
LexLess(a, b) ==
  IF b = << >> THEN FALSE
  ELSE IF a = << >> THEN TRUE
  ELSE IF a[1] # b[1] THEN a[1] < b[1]
  ELSE LexLess(Tail(a), Tail(b))

\* the selections handleSelection(k) is specified to narrow by
Upstream(S, k) == [i \in dropdownIds |-> IF i <= k THEN S[i] ELSE EmptyStr]

AfterHandleSelection == lastCall = "handleSelection"

(***************************************************************************)
(* Claims                                                                  *)
(***************************************************************************)

\* C1: after handleSelection(k), every column j > k offers exactly
\* uniqueValues(relaxedMatch(dataset, S'), j), S' being the gathered
\* selections with every position > k blanked.
C1_DownstreamOptionsFromUpstreamOnly ==
  AfterHandleSelection =>
    \A j \in dropdownIds :
      j > changedIndex =>
        options[j] =
          getUniqueValues(
            relaxedFilter(excelData, Upstream(filters, changedIndex)), j)

\* C2: when handleSelection runs and exactly one row strictly matches the
\* gathered selections, #result holds that row's answer value, unchanged.
C2_UniqueMatchShown ==
  (AfterHandleSelection /\ Len(StrictMatch(excelData, filters)) = 1) =>
    result = StrictMatch(excelData, filters)[1][AnswerColumn]

C2_Witness ==
  /\ AfterHandleSelection
  /\ Len(StrictMatch(excelData, filters)) = 1
  /\ Len(excelData) = 2
  /\ result = sTwoLines

\* C3: when handleSelection runs and zero rows or several rows strictly
\* match the gathered selections, #result is the empty string.
C3_NoUniqueMatchShowsNothing ==
  (AfterHandleSelection /\ Len(StrictMatch(excelData, filters)) # 1) =>
    result = EmptyStr

C3_Witness ==
  /\ AfterHandleSelection
  /\ Len(StrictMatch(excelData, filters)) = 2
  /\ excelData[1] = excelData[2]
  /\ excelData[1][AnswerColumn] # EmptyStr
  /\ result = EmptyStr

\* C4: strictFilter returns exactly the rows that meet all six column
\* constraints: blank selection with empty trimmed cell, or equal values.
C4_StrictFilterExact ==
  lastCall \in {"strictFilter", "bothFilters"} =>
    strictlyMatchedRows = StrictMatch(excelData, filters)

C4_Witness ==
  /\ lastCall = "strictFilter"
  /\ Len(excelData) = 2
  /\ Len(strictlyMatchedRows) = 1
  /\ strictlyMatchedRows[1][0] = sPaddedA
  /\ filters[0] = sA
  /\ filters[1] = EmptyStr

\* C5: relaxedFilter returns exactly the rows whose trimmed value equals the
\* selection at every column with a non-blank selection.
C5_RelaxedFilterExact ==
  lastCall \in {"relaxedFilter", "bothFilters"} =>
    relaxedData = RelaxedMatch(excelData, filters)

C5_Witness ==
  /\ lastCall = "relaxedFilter"
  /\ Len(excelData) = 2
  /\ Len(relaxedData) = 1
  /\ filters[0] = sA
  /\ filters[1] = EmptyStr
  /\ relaxedData[1][1] = sB

\* C6: every row strictFilter returns is returned by relaxedFilter for the
\* same rows and selections, as many times.
C6_RelaxedContainsStrict ==
  lastCall = "bothFilters" =>
    \A r \in Elements(strictlyMatchedRows) :
      Count(strictlyMatchedRows, r) <= Count(relaxedData, r)

C6_Witness ==
  /\ lastCall = "bothFilters"
  /\ Len(strictlyMatchedRows) = 1
  /\ Len(relaxedData) = 2
  /\ filters[0] = sA
  /\ strictlyMatchedRows[1][1] = EmptyStr
  /\ relaxedData[2][1] = sB

\* C7 as stated: getUniqueValues returns no empty string, no value twice,
\* exactly the distinct non-empty trimmed values of the column, in ascending
\* code-point order.
C7_UniqueValuesCodePointSorted ==
  lastCall = "getUniqueValues" =>
    /\ EmptyStr \notin Elements(uniqueVals)
    /\ \A p, q \in 1..Len(uniqueVals) : p # q => uniqueVals[p] # uniqueVals[q]
    /\ Elements(uniqueVals) = TrimmedValues(excelData, colName)
    /\ \A p, q \in 1..Len(uniqueVals) :
         p < q => LexLess(CodePoints(uniqueVals[p]), CodePoints(uniqueVals[q]))

\* C7 amended: getUniqueValues returns no empty string, no value twice,
\* exactly the distinct non-empty trimmed values of the column, in ascending
\* order of their UTF-16 code units.
C7_UniqueValuesCodeUnitSorted ==
  lastCall = "getUniqueValues" =>
    /\ EmptyStr \notin Elements(uniqueVals)
    /\ \A p, q \in 1..Len(uniqueVals) : p # q => uniqueVals[p] # uniqueVals[q]
    /\ Elements(uniqueVals) = TrimmedValues(excelData, colName)
    /\ \A p, q \in 1..Len(uniqueVals) :
         p < q => LexLess(uniqueVals[p], uniqueVals[q])

C7_Witness ==
  /\ lastCall = "getUniqueValues"
  /\ colName = 5
  /\ uniqueVals = <<sGrinning, sFullwidthA>>

\* C8: after handleSelection(k) every <select> j > k has the blank value,
\* whatever it held when the event fired.
C8_DownstreamSelectionsBlank ==
  AfterHandleSelection =>
    \A j \in dropdownIds : j > changedIndex => value[j] = EmptyStr

C8_Witness ==
  /\ AfterHandleSelection
  /\ \E j \in dropdownIds : j > changedIndex /\ filters[j] # EmptyStr
  /\ \A j \in dropdownIds : j > changedIndex => value[j] = EmptyStr

\* the two-row sheet of the differing-depth scenario
DepthSheet ==
  << Row(sA, EmptyStr, EmptyStr, EmptyStr, EmptyStr, EmptyStr, sFoo),
     Row(sA, sB, EmptyStr, EmptyStr, EmptyStr, EmptyStr, sBar) >>

\* C9: on the two-row sheet, selecting A in column 0 shows foo and offers
\* exactly [B] in column 1; selecting B in column 1 then shows bar.
C9_DifferingDepthScenario ==
  (excelData = DepthSheet /\ AfterHandleSelection) =>
    /\ (changedIndex = 0 /\ filters = Vector(sA, EmptyStr, EmptyStr, EmptyStr, EmptyStr, EmptyStr))
         => (result = sFoo /\ options[1] = <<sB>>)
    /\ (changedIndex = 1 /\ filters = Vector(sA, sB, EmptyStr, EmptyStr, EmptyStr, EmptyStr))
         => result = sBar

C9_Witness ==
  /\ excelData = DepthSheet
  /\ AfterHandleSelection
  /\ changedIndex = 1
  /\ filters = Vector(sA, sB, EmptyStr, EmptyStr, EmptyStr, EmptyStr)
  /\ result = sBar

\* C10: after a successful load, a reset sets the options of column 0 to
\* getUniqueValues of the full sheet and #result to "No result yet", which
\* is not the empty string.
C10_ResetRestoresFirstColumn ==
  (lastCall = "resetBtn.click" /\ loadState = "loaded") =>
    /\ options[0] = getUniqueValues(excelData, 0)
    /\ result = NoResultYet
    /\ result # EmptyStr

C10_Witness ==
  /\ lastCall = "resetBtn.click"
  /\ loadState = "loaded"
  /\ changedIndex >= 0
  /\ Len(options[0]) = 2
  /\ result = NoResultYet

AfterReset == lastCall = "resetBtn.click"

\* C11: a reset leaves all six selections blank and the option lists of
\* columns 1 to 5 empty, in whatever state it is clicked.
C11_ResetBlanksSelectionsAndDownstream ==
  AfterReset =>
    /\ value = AllBlank
    /\ \A j \in dropdownIds : j >= 1 => options[j] = << >>

C11_Witness ==
  /\ AfterReset
  /\ changedIndex >= 1
  /\ filters[0] # EmptyStr
  /\ filters[changedIndex] # EmptyStr
  /\ Len(options[0]) >= 1
  /\ value = AllBlank

\* a page that was never touched: no option, no selection, the sentinel text
FreshDom(S) == Dom(S, NoOptions, NoResultYet)

\* the option lists of the columns after k agree, and so does #result
SameOutputs(dom, k) ==
  /\ dom.result = result
  /\ \A j \in dropdownIds : j > k => dom.options[j] = options[j]

\* C12: running handleSelection again with the same sheet, the same
\* selections and the same changedIndex, on the present page or on an
\* untouched one, yields the option lists and the display the first run left.
C12_SameInputsSameOutputs ==
  AfterHandleSelection =>
    /\ SameOutputs(handleSelectionDom(Dom(filters, options, result),
                                      excelData, changedIndex), changedIndex)
    /\ SameOutputs(handleSelectionDom(FreshDom(filters),
                                      excelData, changedIndex), changedIndex)

C12_Witness ==
  /\ AfterHandleSelection
  /\ changedIndex = 0
  /\ filters[1] # EmptyStr
  /\ Len(strictlyMatchedRows) # 1
  /\ result = EmptyStr
  /\ Len(options[1]) >= 1

LoadFailed == loadState \in {"threw", "badStatus", "networkError"}

\* C13: right after any failed load (bad status, transport error or a
\* workbook that cannot be parsed) #result shows the load-error message, the
\* dataset is empty and no option list is populated.
C13_EveryLoadFailureShowsError ==
  (LoadFailed /\ lastCall \in {"xhr.onload", "xhr.onerror"}) =>
    /\ result = LoadErrorText
    /\ excelData = << >>
    /\ options = NoOptions

\* C14: until the load has completed successfully handleSelection has never
\* run and all six option lists are empty, a reset click before the load
\* included.
C14_NothingComputedBeforeLoad ==
  loadState # "loaded" =>
    /\ lastCall # "handleSelection"
    /\ changedIndex = -1
    /\ options = NoOptions

C14_Witness ==
  /\ loadState = "loading"
  /\ AfterReset
  /\ result = NoResultYet
  /\ options = NoOptions

LoadedEmpty == loadState = "loaded" /\ excelData = << >>

\* C15 as stated: with an empty loaded dataset, after initialization, any
\* handleSelection and any reset, all six option lists are empty and #result
\* is the empty string.
C15_EmptySheetShowsEmpty ==
  LoadedEmpty => (options = NoOptions /\ result = EmptyStr)

\* C15 amended: with an empty loaded dataset, after initialization and after
\* any reset all six option lists are empty and #result is "No result yet";
\* no handleSelection runs, since no <select> offers an option to pick.
C15_EmptySheetShowsSentinel ==
  LoadedEmpty =>
    /\ options = NoOptions
    /\ result = NoResultYet
    /\ lastCall # "handleSelection"
    /\ \A k \in dropdownIds : Choices(k) \ {value[k]} = {}

C15_Witness ==
  /\ LoadedEmpty
  /\ AfterReset
  /\ options = NoOptions
  /\ result = NoResultYet

\* C16: after a successful load, whenever #result shows a non-empty answer
\* (not the "No result yet" text), exactly one row strictly matches the
\* selections the six selects hold now, and #result is that row's answer.
C16_ShownAnswerMatchesCurrentSelection ==
  (loadState = "loaded" /\ result \notin {EmptyStr, NoResultYet}) =>
    /\ Len(StrictMatch(excelData, value)) = 1
    /\ result = StrictMatch(excelData, value)[1][AnswerColumn]

\* C17: every option offered in column j is the trimmed value at column j of
\* a row that matches every non-blank selection now held at a position < j.
C17_OptionsAgreeWithUpstream ==
  \A j \in dropdownIds :
    \A v \in Elements(options[j]) :
      \E p \in 1..Len(excelData) :
        /\ Trim(excelData[p][j]) = v
        /\ \A i \in dropdownIds :
             (i < j /\ value[i] # EmptyStr) => Trim(excelData[p][i]) = value[i]

C17_Witness ==
  /\ value[0] = sA
  /\ options[1] = <<sB>>
  /\ \E p \in 1..Len(excelData) : Trim(excelData[p][1]) = sD

\* C18: a handleSelection(k) step leaves the dataset, the option list of
\* every column j <= k and the selection of every column j <= k as they were
\* when it gathered them.
C18_UpstreamUntouched ==
  [][lastCall' = "handleSelection" =>
       /\ excelData' = excelData
       /\ \A j \in dropdownIds :
            j <= changedIndex' =>
              /\ options'[j] = options[j]
              /\ value'[j] = filters'[j]
              /\ (j < changedIndex' => value'[j] = value[j])]_vars

C18_Witness ==
  /\ AfterHandleSelection
  /\ changedIndex >= 1
  /\ value[0] # EmptyStr
  /\ value[changedIndex] # EmptyStr
  /\ Len(options[0]) >= 2
  /\ Len(options[changedIndex]) >= 1

\* C19: in the loop of handleSelection every chosenVal read right after
\* repopulating a column is blank, so every column j > k gets its options
\* from the one row subset relaxedFilter returned.
C19_LoopNeverNarrows ==
  AfterHandleSelection =>
    /\ Len(chosenVals) = NumDropdowns - 1 - changedIndex
    /\ \A p \in 1..Len(chosenVals) : chosenVals[p] = EmptyStr
    /\ \A j \in dropdownIds :
         j > changedIndex => options[j] = getUniqueValues(relaxedData, j)

C19_Witness ==
  /\ AfterHandleSelection
  /\ changedIndex = 0
  /\ Len(chosenVals) = 5
  /\ \E j \in dropdownIds :
       j > 0 /\ filters[j] # EmptyStr /\ Len(options[j]) >= 1

\* C20: once a failed load has put the load-error message in #result, every
\* later step leaves that message there.
C20_LoadErrorStays ==
  [][(loadState \in {"badStatus", "networkError"} /\ result = LoadErrorText)
       => result' = LoadErrorText]_vars

=============================================================================
